---- MODULE Spec2Model ----
(***************************************************************************)
(* Model of the LionAGI MCP bridge (class LionAGIMCPBridge in              *)
(* src/src/lionagi-integration/lionagi-mcp-bridge.ts) together with the    *)
(* MCP tool handler orchestrateMultiModelTask of the empowerment engine    *)
(* (src/unnamed/part_001) that calls it.                                   *)
(*                                                                         *)
(* The bridge runs on one cooperative event loop.  An action of this model *)
(* is one run-to-completion turn of that loop: a synchronous prefix of an  *)
(* async function up to its first real suspension point, or an event       *)
(* callback together with the promise continuations it releases.           *)
(*                                                                         *)
(* Strings built by template literals are tuples of their parts, so that   *)
(* "the message contains X" and "the message is X" are different things.   *)
(* Numbers that the code divides are exact fractions <<num, den>>.         *)
(***************************************************************************)
EXTENDS Integers, Sequences, FiniteSets, TLC

\* ------------------------------------------------------------------ bounds
MaxCalls == 2      \* submissions made during one run of the model
MaxTime  == 2      \* Date.now() ranges over 0..MaxTime
MaxRnd   == 2      \* distinct values of the random suffix of an operation id
Timeout  == 1      \* the deadline (in clock ticks) a per-task timeout would use

Calls == 1 .. MaxCalls
Times == 0 .. MaxTime

\* ------------------------------------------------------- the task's fields
DeclaredTypes ==
  {"research", "analysis", "code_generation", "legal_reasoning", "cross_platform_sync"}

\* callers build tasks from untyped request bodies, so any string can arrive
TaskTypes == DeclaredTypes \cup {"translation", "Research"}

Priorities == {"high"}

SessionIds == {"s1"}
ModelNames == {"gpt"}

\* how a submission reaches orchestrateCognitiveTask
Vias == {"direct", "tool"}

NoTask == [type |-> "none", priority |-> "none"]

\* ------------------------------------------------------------ exact fractions
RECURSIVE GCD(_, _)
GCD(a, b) == IF b = 0 THEN a ELSE GCD(b, a % b)

Frac(n, d) == LET g == GCD(n, d) IN IF g = 0 THEN <<0, 1>> ELSE <<n \div g, d \div g>>

FracAdd(f, k) == Frac(f[1] + k * f[2], f[2])

FracDiv(f, k) == Frac(f[1], f[2] * k)

\* ------------------------------------------------ strings built from parts
\* a template literal `prefix${x}` is the tuple <<prefix, x>>
Contains(msg, part) == \E i \in 1 .. Len(msg) : msg[i] = part

NoError == << >>

\* ------------------------------------------- what a spawned process can do
\* the text a reasoning script prints: either the serialisation of a JSON
\* value or something JSON.parse rejects
JsonObjects ==
  [kind : {"object"}, success : {"true", "false"},
   session_id : {"absent"} \cup SessionIds, model_used : {"absent"} \cup ModelNames,
   output : {"absent"}, parsing_error : {"absent"}]

JsonNull ==
  [kind |-> "null", success |-> "absent", session_id |-> "absent",
   model_used |-> "absent", output |-> "absent", parsing_error |-> "absent"]

NoResult ==
  [kind |-> "undefined", success |-> "absent", session_id |-> "absent",
   model_used |-> "absent", output |-> "absent", parsing_error |-> "absent"]

RawTexts == {"not json", ""}

Stdouts ==
  [json : {TRUE}, value : JsonObjects \cup {JsonNull}, raw : {""}]
    \cup [json : {FALSE}, value : {NoResult}, raw : RawTexts]

Stderrs == {"", "boom"}

ExitCodes == {0, 2}

\* a process that exits 0 is judged by its stdout alone, one that exits with
\* another code by its stderr alone
Silent == [json |-> FALSE, value |-> NoResult, raw |-> ""]

ProcOutcomes ==
  [code : {0}, stdout : Stdouts, stderr : {""}]
    \cup [code : ExitCodes \ {0}, stdout : {Silent}, stderr : Stderrs]

NoProc == [code |-> -1, stdout |-> Silent, stderr |-> ""]

\* the program could not be started: the child reports the negated errno
SpawnFailed == [code |-> -2, stdout |-> Silent, stderr |-> ""]

\* ------------------------------------------------------------ the response
NoResponse ==
  [success |-> FALSE, result |-> NoResult, error |-> NoError,
   session_id |-> "absent", model_used |-> "absent"]

NoOpId == <<-1, 0>>

NoEntry == << >>

NoCall ==
  [pc |-> "idle", task |-> NoTask, via |-> "direct", persist |-> FALSE,
   opId |-> NoOpId, spawned |-> FALSE, proc |-> NoProc, counted |-> FALSE,
   duration |-> 0, result |-> NoResult,
   entry |-> NoEntry, write |-> "none", response |-> NoResponse, tool |-> "none"]

\* ------------------------------------------------------------------- state
VARIABLES
  forensicLogging,   \* config.forensicLogging, fixed at construction
  initPc,            \* position of initializeLionAGI
  isInitialized,     \* this.isInitialized
  pythonProcess,     \* this.pythonProcess: "null" or the state of the engine child
  listeners,         \* TRUE until removeAllListeners()
  emitted,           \* events the bridge has emitted to attached listeners
  hostAlive,         \* FALSE once an uncaught exception has ended the host process
  now,               \* Date.now()
  activeOperations,  \* this.activeOperations: operation id -> entry
  cognitiveMetrics,  \* this.cognitiveMetrics
  sessionManager,    \* this.sessionManager (the bridge's own session map)
  lionagiSessions,   \* the engine's session store, filled by the tool handler
  forensicFiles,     \* ../logs/forensic_<operationId>.json: operation id -> entry
  snapshot,          \* the object getCognitiveMetrics returned last, held by its caller
  call               \* the submissions: position, inputs and outcome of each

vars ==
  <<forensicLogging, initPc, isInitialized, pythonProcess, listeners, emitted,
    hostAlive, now, activeOperations, cognitiveMetrics, sessionManager,
    lionagiSessions, forensicFiles, snapshot, call>>

EmptyMap == [x \in {} |-> 0]

\* no snapshot has been taken
NoSnapshot ==
  [taken |-> FALSE, totalOperations |-> 0, successRate |-> <<0, 1>>,
   averageResponseTime |-> <<0, 1>>, modelUsageStats |-> "none",
   activeOperations |-> 0, queuedTasks |-> 0, sessions |-> 0, uptime |-> 0,
   timestamp |-> 0]

Init ==
  /\ forensicLogging \in BOOLEAN
  /\ initPc = "writeScript"
  /\ isInitialized = FALSE
  /\ pythonProcess = "null"
  /\ listeners = TRUE
  /\ emitted = {}
  /\ hostAlive = TRUE
  /\ now = 0
  /\ activeOperations = EmptyMap
  /\ cognitiveMetrics =
       [totalOperations |-> 0, successRate |-> <<0, 1>>,
        averageResponseTime |-> <<0, 1>>, modelUsageStats |-> EmptyMap]
  /\ sessionManager = EmptyMap
  /\ lionagiSessions = EmptyMap
  /\ forensicFiles = EmptyMap
  /\ snapshot = NoSnapshot
  /\ call = [c \in Calls |-> NoCall]

\* ------------------------------------------------------------ map helpers
MapSet(m, k, v) == [x \in DOMAIN m \cup {k} |-> IF x = k THEN v ELSE m[x]]

MapDelete(m, k) == [x \in DOMAIN m \ {k} |-> m[x]]

\* ---------------------------------------------------------- initialization
\* a catch block that marks the bridge initialized all the same
InitFailed_MarksInitialized ==
  /\ initPc' = "failed"
  /\ emitted' = IF listeners THEN emitted \cup {"error"} ELSE emitted
  /\ hostAlive' \in BOOLEAN
  /\ isInitialized' = TRUE
  /\ UNCHANGED pythonProcess

\* the catch block of initializeLionAGI: emit('error', ...) and rethrow.  The
\* constructor does not await the promise, so the rethrow is an unhandled
\* rejection, which ends the host or not depending on the runtime's policy.
InitFailed ==
  /\ initPc' = "failed"
  /\ emitted' = IF listeners THEN emitted \cup {"error"} ELSE emitted
  /\ hostAlive' \in BOOLEAN
  /\ UNCHANGED <<isInitialized, pythonProcess>>

\* await writeFile(lionagi_bridge.py) settles; on success ensureLionAGIInstalled
\* spawns pip
InitWriteScript ==
  /\ hostAlive /\ initPc = "writeScript"
  /\ \/ /\ initPc' = "install"
        /\ UNCHANGED <<isInitialized, pythonProcess, emitted, hostAlive>>
     \/ InitFailed
  /\ UNCHANGED <<snapshot, forensicLogging, listeners, now, activeOperations, cognitiveMetrics,
                 sessionManager, lionagiSessions, forensicFiles, call>>

\* spawn('python3', [bridgePath]) and the two stream listeners
startPythonProcess == "spawned"

\* pip's 'close' event; with code 0 the engine is spawned, the bridge marks
\* itself initialized and emits 'initialized'
InitInstall ==
  /\ hostAlive /\ initPc = "install"
  /\ \/ /\ pythonProcess' = startPythonProcess
        /\ isInitialized' = TRUE
        /\ emitted' = IF listeners THEN emitted \cup {"initialized"} ELSE emitted
        /\ initPc' = "done"
        /\ UNCHANGED hostAlive
     \/ InitFailed
  /\ UNCHANGED <<snapshot, forensicLogging, listeners, now, activeOperations, cognitiveMetrics,
                 sessionManager, lionagiSessions, forensicFiles, call>>

\* a child's 'error' event (the program could not be started) has no listener
\* on either child: EventEmitter throws it, nothing catches it
InitSpawnError ==
  /\ hostAlive
  /\ \/ /\ initPc = "install"
        /\ UNCHANGED pythonProcess
     \/ /\ pythonProcess = "spawned"
        /\ pythonProcess' = "failed"
  /\ hostAlive' = FALSE
  /\ UNCHANGED <<snapshot, forensicLogging, initPc, isInitialized, listeners, emitted, now,
                 activeOperations, cognitiveMetrics, sessionManager, lionagiSessions,
                 forensicFiles, call>>

\* the bridge script prints its status line: the stdout listener emits
\* 'python_message' if the chunk parses as JSON, 'python_raw' if not
EngineMessage ==
  /\ hostAlive /\ pythonProcess = "spawned"
  /\ pythonProcess' = "running"
  /\ \E event \in {"python_message", "python_raw"} :
       emitted' = IF listeners THEN emitted \cup {event} ELSE emitted
  /\ UNCHANGED <<snapshot, forensicLogging, initPc, isInitialized, listeners, hostAlive,
                 now, activeOperations, cognitiveMetrics, sessionManager,
                 lionagiSessions, forensicFiles, call>>

\* the bridge script ends after its status line, or dies before printing it
EngineExit ==
  /\ hostAlive /\ pythonProcess \in {"spawned", "running"}
  /\ pythonProcess' = "exited"
  /\ UNCHANGED <<snapshot, forensicLogging, initPc, isInitialized, listeners, emitted, hostAlive,
                 now, activeOperations, cognitiveMetrics, sessionManager,
                 lionagiSessions, forensicFiles, call>>

\* shutdown(): kill the engine child if there is a handle, drop all listeners
shutdown ==
  /\ hostAlive
  /\ pythonProcess' = IF pythonProcess \in {"spawned", "running"} THEN "killed"
                      ELSE pythonProcess
  /\ listeners' = FALSE
  /\ UNCHANGED <<snapshot, forensicLogging, initPc, isInitialized, emitted, hostAlive, now,
                 activeOperations, cognitiveMetrics, sessionManager, lionagiSessions,
                 forensicFiles, call>>

\* the clock behind Date.now()
Tick ==
  /\ hostAlive /\ now < MaxTime
  /\ now' = now + 1
  /\ UNCHANGED <<snapshot, forensicLogging, initPc, isInitialized, pythonProcess, listeners,
                 emitted, hostAlive, activeOperations, cognitiveMetrics, sessionManager,
                 lionagiSessions, forensicFiles, call>>

\* --------------------------------------------------- orchestration, pure parts
\* a switch on the lower-cased type
Route_CaseInsensitive(type) ==
  CASE type = "legal_reasoning"     -> "executeLegalReasoningWorkflow"
    [] type \in {"research", "Research"} -> "executeResearchWorkflow"
    [] type = "analysis"            -> "executeAnalysisWorkflow"
    [] type = "code_generation"     -> "executeCodeGenerationWorkflow"
    [] type = "cross_platform_sync" -> "executeCrossPlatformSyncWorkflow"
    [] OTHER                        -> "throw"

\* a switch without the cross_platform_sync case
Route_NoSync(type) ==
  CASE type = "legal_reasoning"     -> "executeLegalReasoningWorkflow"
    [] type = "research"            -> "executeResearchWorkflow"
    [] type = "analysis"            -> "executeAnalysisWorkflow"
    [] type = "code_generation"     -> "executeCodeGenerationWorkflow"
    [] OTHER                        -> "throw"

\* a switch whose default falls through to a workflow
Route_DefaultWorkflow(type) ==
  CASE type = "legal_reasoning"     -> "executeLegalReasoningWorkflow"
    [] type = "research"            -> "executeResearchWorkflow"
    [] type = "code_generation"     -> "executeCodeGenerationWorkflow"
    [] type = "cross_platform_sync" -> "executeCrossPlatformSyncWorkflow"
    [] OTHER                        -> "executeAnalysisWorkflow"

\* the switch of orchestrateCognitiveTask
Route(type) ==
  CASE type = "legal_reasoning"     -> "executeLegalReasoningWorkflow"
    [] type = "research"            -> "executeResearchWorkflow"
    [] type = "analysis"            -> "executeAnalysisWorkflow"
    [] type = "code_generation"     -> "executeCodeGenerationWorkflow"
    [] type = "cross_platform_sync" -> "executeCrossPlatformSyncWorkflow"
    [] OTHER                        -> "throw"

UnknownTypeError(type) == <<"Unknown task type: ", type>>

NotInitializedError == <<"LionAGI Bridge not initialized">>

\* executePythonScript declares `const process = spawn(..., {env: {...process.env}})`:
\* the initializer reads the binding it declares.  Where that read throws, the
\* promise executor throws before any child exists and the promise rejects.
SpawnThrowError == <<"Cannot access 'process' before initialization">>

NullResultError == <<"Cannot read properties of null">>

WriteFileError == <<"ENOENT: no such file or directory, open ", "../logs/forensic_">>

JSONparse(text) == text.value

Degraded(text, message) ==
  [kind |-> "degraded", success |-> "absent", session_id |-> "absent",
   model_used |-> "absent", output |-> text.raw, parsing_error |-> message]

\* a 'close' listener whose rejection leaves the captured stderr out
OnClose_NoStderr(outcome) ==
  IF outcome.code = 0
    THEN IF outcome.stdout.json
           THEN [settle |-> "resolve", value |-> JSONparse(outcome.stdout), error |-> NoError]
           ELSE [settle |-> "resolve",
                 value |-> Degraded(outcome.stdout, "Unexpected token"),
                 error |-> NoError]
    ELSE [settle |-> "reject", value |-> NoResult,
          error |-> <<"Python process failed: ">>]

\* the 'close' listener of executePythonScript: how the promise settles
OnClose(outcome) ==
  IF outcome.code = 0
    THEN IF outcome.stdout.json
           THEN [settle |-> "resolve", value |-> JSONparse(outcome.stdout), error |-> NoError]
           ELSE [settle |-> "resolve",
                 value |-> Degraded(outcome.stdout, "Unexpected token"),
                 error |-> NoError]
    ELSE [settle |-> "reject", value |-> NoResult,
          error |-> <<"Python process failed: ", outcome.stderr>>]

\* updateCognitiveMetrics up to the point where it reads result.success
MetricsTimed(m, duration) ==
  [m EXCEPT !.totalOperations = @ + 1,
            !.averageResponseTime = FracDiv(FracAdd(@, duration), 2)]

\* a rate update that adds the success without dividing by the total
MetricsRated_NoDivide(m, result) ==
  IF result.success # "false"
    THEN [m EXCEPT !.successRate = FracAdd(@, 1)]
    ELSE m

MetricsRated(m, result) ==
  IF result.success # "false"
    THEN [m EXCEPT !.successRate = FracDiv(FracAdd(@, 1), m.totalOperations)]
    ELSE m

MetricsModel(m, result) ==
  IF result.model_used # "absent"
    THEN [m EXCEPT !.modelUsageStats =
            MapSet(@, result.model_used,
                   (IF result.model_used \in DOMAIN @ THEN @[result.model_used] ELSE 0) + 1)]
    ELSE m

\* reading a property of null throws a TypeError
ReadThrows(result) == result.kind = "null"

\* updateCognitiveMetrics(operationId, result): the metrics it leaves behind;
\* with a null result it throws after the first two updates
updateCognitiveMetrics(m, ops, operationId, result, t) ==
  IF operationId \in DOMAIN ops
    THEN LET timed == MetricsTimed(m, t - ops[operationId].startTime)
         IN  IF ReadThrows(result) THEN timed
             ELSE MetricsModel(MetricsRated(timed, result), result)
    ELSE m

\* JSON.stringify(result) as the sequence of the members it prints
Stringify(result) ==
  CASE result.kind = "degraded" ->
         <<<<"output", result.output>>, <<"parsing_error", result.parsing_error>>>>
    [] result.kind = "object" ->
         (IF result.success = "absent" THEN << >> ELSE <<<<"success", result.success>>>>)
           \o (IF result.session_id = "absent" THEN << >>
               ELSE <<<<"session_id", result.session_id>>>>)
           \o (IF result.model_used = "absent" THEN << >>
               ELSE <<<<"model_used", result.model_used>>>>)
    [] OTHER -> <<<<"null">>>>

\* Buffer.from(data).toString('base64').substr(0, 32): a prefix of an encoding
generateDataHash(data) == SubSeq(data, 1, IF Len(data) < 2 THEN Len(data) ELSE 2)

generateChainOfCustody(operationId, t) == <<"CoC_", operationId, t, "unknown">>

\* the entry logForensicOperation builds before it awaits writeFile
ForensicEntry(operationId, task, result, t) ==
  [operation_id |-> operationId, timestamp |-> t, task_type |-> task.type,
   task_priority |-> task.priority, models_used |-> result.model_used,
   session_id |-> result.session_id, data_hash |-> generateDataHash(Stringify(result)),
   chain_of_custody |-> generateChainOfCustody(operationId, t)]

SuccessResponse(result) ==
  [success |-> TRUE, result |-> result, error |-> NoError,
   session_id |-> result.session_id, model_used |-> result.model_used]

FailureResponse(message) ==
  [success |-> FALSE, result |-> NoResult, error |-> message,
   session_id |-> "absent", model_used |-> "absent"]

\* a handler that stores the session whether persistence was requested or not
StoreSession_IgnoresPersist(sessions, rec, response, t) ==
  IF rec.via = "tool" /\ response.session_id # "absent"
    THEN MapSet(sessions, response.session_id,
                [task_type |-> rec.task.type, created |-> t, last_accessed |-> t])
    ELSE sessions

\* orchestrateMultiModelTask after `await orchestrateCognitiveTask(task)`
StoreSession(sessions, rec, response, t) ==
  IF rec.via = "tool" /\ rec.persist /\ response.session_id # "absent"
    THEN MapSet(sessions, response.session_id,
                [task_type |-> rec.task.type, created |-> t, last_accessed |-> t])
    ELSE sessions

\* ------------------------------------------------------ orchestration, steps
\* orchestrateCognitiveTask returns `response` to its caller; when the caller is
\* the tool handler, its continuation runs in the same turn
Return(c, rec, response, ops) ==
  /\ call' = [call EXCEPT ![c] =
                [rec EXCEPT !.pc = "returned", !.response = response,
                            !.tool = IF rec.via = "tool" THEN "success" ELSE "none"]]
  /\ lionagiSessions' = StoreSession(lionagiSessions, rec, response, now)
  /\ activeOperations' = ops

\* a catch block that forgets the delete
Catch_NoDelete(c, rec, message, ops) ==
  Return(c, rec, FailureResponse(message), ops)

\* the catch block: delete the entry, return {success: false, error}
Catch(c, rec, message, ops) ==
  Return(c, rec, FailureResponse(message), MapDelete(ops, rec.opId))

\* a caller submits a task: the synchronous prefix of orchestrateCognitiveTask,
\* up to the spawn of the reasoning process.  `persist` is the tool handler's
\* session_persistence argument; a direct caller has none.  `spawns` is
\* whether the spawn statement of executePythonScript yields a child: FALSE is
\* the read of the shadowed `process` throwing inside the promise executor,
\* TRUE is that read yielding the global process object, which is the case the
\* stream and 'close' listeners of executePythonScript are written for.
Submit(c, task, via, persist, r, spawns) ==
  /\ hostAlive /\ call[c].pc = "idle"
  /\ \A d \in Calls : d < c => call[d].pc # "idle"
  /\ LET rec == [call[c] EXCEPT !.task = task, !.via = via,
                                !.persist = (via = "tool" /\ persist)]
         operationId == <<now, r>>
         entered == [rec EXCEPT !.opId = operationId]
         ops == MapSet(activeOperations, operationId,
                       [task |-> c, startTime |-> now, status |-> "processing"])
     IN  IF ~isInitialized
           THEN /\ call' = [call EXCEPT ![c] =
                              [rec EXCEPT !.pc = "thrown",
                                          !.response = FailureResponse(NotInitializedError),
                                          !.tool = IF via = "tool" THEN "throws" ELSE "none"]]
                /\ UNCHANGED <<activeOperations, lionagiSessions>>
           ELSE IF Route(task.type) = "throw"
                  THEN Catch(c, entered, UnknownTypeError(task.type), ops)
                  ELSE IF spawns
                         THEN /\ call' = [call EXCEPT ![c] =
                                            [entered EXCEPT !.pc = "executing",
                                                            !.spawned = TRUE]]
                              /\ activeOperations' = ops
                              /\ UNCHANGED lionagiSessions
                         ELSE Catch(c, entered, SpawnThrowError, ops)
  /\ UNCHANGED <<snapshot, forensicLogging, initPc, isInitialized, pythonProcess, listeners,
                 emitted, hostAlive, now, cognitiveMetrics, sessionManager, forensicFiles>>

\* the reasoning process could not be started: its 'error' event has no listener
ProcSpawnError(c) ==
  /\ hostAlive /\ call[c].pc = "executing"
  /\ call' = [call EXCEPT ![c].proc = SpawnFailed]
  /\ hostAlive' = FALSE
  /\ UNCHANGED <<snapshot, forensicLogging, initPc, isInitialized, pythonProcess, listeners,
                 emitted, now, activeOperations, cognitiveMetrics, sessionManager,
                 lionagiSessions, forensicFiles>>

\* the reasoning process closes: the 'close' listener settles the promise and
\* orchestrateCognitiveTask continues up to `await writeFile` or to its return
ProcClose(c, outcome) ==
  /\ hostAlive /\ call[c].pc = "executing"
  /\ LET rec == [call[c] EXCEPT !.proc = outcome]
         settled == OnClose(outcome)
         result == settled.value
         got == [rec EXCEPT !.result = result,
                            !.counted = (rec.opId \in DOMAIN activeOperations),
                            !.duration = IF rec.opId \in DOMAIN activeOperations
                                           THEN now - activeOperations[rec.opId].startTime
                                           ELSE 0]
     IN  IF settled.settle = "reject"
           THEN /\ Catch(c, rec, settled.error, activeOperations)
                /\ UNCHANGED cognitiveMetrics
           ELSE /\ cognitiveMetrics' =
                     updateCognitiveMetrics(cognitiveMetrics, activeOperations,
                                            rec.opId, result, now)
                /\ IF ReadThrows(result)
                     THEN Catch(c, got, NullResultError, activeOperations)
                     ELSE IF forensicLogging
                            THEN /\ call' = [call EXCEPT ![c] =
                                      [got EXCEPT !.pc = "logging",
                                                  !.entry = ForensicEntry(rec.opId, rec.task,
                                                                          result, now)]]
                                 /\ UNCHANGED <<activeOperations, lionagiSessions>>
                            ELSE Return(c, got, SuccessResponse(result),
                                        MapDelete(activeOperations, rec.opId))
  /\ UNCHANGED <<snapshot, forensicLogging, initPc, isInitialized, pythonProcess, listeners,
                 emitted, hostAlive, now, sessionManager, forensicFiles>>

\* writeFile(forensic_<operationId>.json) settles
ForensicWrite(c, ok) ==
  /\ hostAlive /\ call[c].pc = "logging"
  /\ LET rec == [call[c] EXCEPT !.write = IF ok THEN "written" ELSE "failed"]
     IN  IF ok
           THEN /\ forensicFiles' = MapSet(forensicFiles, rec.opId, rec.entry)
                /\ Return(c, rec, SuccessResponse(rec.result),
                          MapDelete(activeOperations, rec.opId))
           ELSE /\ Catch(c, rec, WriteFileError, activeOperations)
                /\ UNCHANGED forensicFiles
  /\ UNCHANGED <<snapshot, forensicLogging, initPc, isInitialized, pythonProcess, listeners,
                 emitted, hostAlive, now, cognitiveMetrics, sessionManager>>

\* ---------------------------------------------------------------- metrics
\* getCognitiveMetrics(): a new object with the spread of cognitiveMetrics and
\* five computed fields.  The spread copies the three numbers and the
\* reference to the modelUsageStats object: "shared" stands for that reference,
\* so the snapshot's usage map is read and written through cognitiveMetrics.
\* taskQueue is never pushed to, its length is always 0.
getCognitiveMetrics ==
  /\ hostAlive
  /\ snapshot' =
       [taken |-> TRUE,
        totalOperations |-> cognitiveMetrics.totalOperations,
        successRate |-> cognitiveMetrics.successRate,
        averageResponseTime |-> cognitiveMetrics.averageResponseTime,
        modelUsageStats |-> "shared",
        activeOperations |-> Cardinality(DOMAIN activeOperations),
        queuedTasks |-> 0,
        sessions |-> Cardinality(DOMAIN sessionManager),
        uptime |-> now,
        timestamp |-> now]
  /\ UNCHANGED <<forensicLogging, initPc, isInitialized, pythonProcess, listeners,
                 emitted, hostAlive, now, activeOperations, cognitiveMetrics,
                 sessionManager, lionagiSessions, forensicFiles, call>>

\* the fields of a snapshot a caller may assign to
SnapshotFields == {"totalOperations", "modelUsageStats"}

\* the holder of a snapshot assigns to it: snapshot.totalOperations = 0 writes
\* the snapshot's own property; snapshot.modelUsageStats[m] = 0 writes the
\* object the reference points to
CallerWritesSnapshot(field, m) ==
  /\ hostAlive /\ snapshot.taken
  /\ IF field = "totalOperations"
       THEN /\ snapshot' = [snapshot EXCEPT !.totalOperations = 0]
            /\ UNCHANGED cognitiveMetrics
       ELSE /\ cognitiveMetrics' =
                 [cognitiveMetrics EXCEPT !.modelUsageStats = MapSet(@, m, 0)]
            /\ UNCHANGED snapshot
  /\ UNCHANGED <<forensicLogging, initPc, isInitialized, pythonProcess, listeners,
                 emitted, hostAlive, now, activeOperations, sessionManager,
                 lionagiSessions, forensicFiles, call>>

\* ------------------------------------------------------------ specification
Tasks == [type : TaskTypes, priority : Priorities]

\* one step of the system, with submissions drawn from the given inputs and
\* reasoning processes behaving in one of the given ways
Step(calls, tasks, vias, outcomes) ==
  \/ InitWriteScript
  \/ InitInstall
  \/ InitSpawnError
  \/ EngineMessage
  \/ EngineExit
  \/ shutdown
  \/ Tick
  \/ \E c \in calls, task \in tasks, via \in vias, persist \in BOOLEAN,
        r \in 1 .. MaxRnd, spawns \in BOOLEAN :
       Submit(c, task, via, persist, r, spawns)
  \/ \E c \in calls : ProcSpawnError(c)
  \/ \E c \in calls, outcome \in outcomes : ProcClose(c, outcome)
  \/ \E c \in calls, ok \in BOOLEAN : ForensicWrite(c, ok)

\* concurrent submissions: every class of outcome, few representatives of each
ConcurrentTasks == [type : {"legal_reasoning", "translation"}, priority : Priorities]

FullObject ==
  [kind |-> "object", success |-> "true", session_id |-> "s1", model_used |-> "gpt",
   output |-> "absent", parsing_error |-> "absent"]

RefusedObject ==
  [kind |-> "object", success |-> "false", session_id |-> "absent",
   model_used |-> "absent", output |-> "absent", parsing_error |-> "absent"]

ConcurrentOutcomes ==
  [code : {0},
   stdout : [json : {TRUE}, value : {FullObject, RefusedObject, JsonNull}, raw : {""}]
              \cup [json : {FALSE}, value : {NoResult}, raw : {"not json"}],
   stderr : {""}]
    \cup [code : {2}, stdout : {Silent}, stderr : {"boom"}]

Next == Step(Calls, ConcurrentTasks, {"direct"}, ConcurrentOutcomes)

Spec == Init /\ [][Next]_vars

\* one submission, every input and every behaviour of its process
NextSingle == Step({1}, Tasks, Vias, ProcOutcomes)

SpecSingle == Init /\ [][NextSingle]_vars

\* one submission, direct or through the tool handler, with snapshots of the
\* metrics taken and written to by their holder
NextSnapshot ==
  \/ Step({1}, ConcurrentTasks, Vias, ConcurrentOutcomes)
  \/ getCognitiveMetrics
  \/ \E field \in SnapshotFields, m \in ModelNames : CallerWritesSnapshot(field, m)

SpecSnapshot == Init /\ [][NextSnapshot]_vars

\* two submissions through the tool handler whose results carry a session id
SessionTasks == [type : {"legal_reasoning", "research"}, priority : Priorities]

SessionOutcomes ==
  [code : {0}, stdout : {[json |-> TRUE, value |-> FullObject, raw |-> ""]},
   stderr : {""}]
    \cup [code : {2}, stdout : {Silent}, stderr : {"boom"}]

NextSessions == Step(Calls, SessionTasks, {"tool"}, SessionOutcomes)

SpecSessions == Init /\ [][NextSessions]_vars

\* ================================================================== claims
InFlight(c) == call[c].pc \in {"executing", "logging"}

Completed(c) == call[c].pc = "returned"

EntriesOf(c) == {id \in DOMAIN activeOperations : activeOperations[id].task = c}

\* C1: once a submission has completed, whatever its outcome, activeOperations
\* holds no entry for it, and when no submission is in flight the map is empty
C1_NoLeak ==
  /\ \A c \in Calls : call[c].pc \in {"returned", "thrown"} => EntriesOf(c) = {}
  /\ (\A c \in Calls : ~InFlight(c)) => DOMAIN activeOperations = {}

\* two submissions have completed, one with success and one through the catch
\* block after its process had been spawned
C1_Witness ==
  /\ \A c \in Calls : Completed(c)
  /\ \E c \in Calls : call[c].response.success
  /\ \E c \in Calls : call[c].spawned /\ ~call[c].response.success

\* C2: every submission that has completed, with success or with a failure, has
\* raised totalOperations by exactly 1, so N completed submissions raise it by N
C2_CountsEveryCompletion ==
  cognitiveMetrics.totalOperations = Cardinality({c \in Calls : Completed(c)})

Counted == {c \in Calls : call[c].counted}

CountedSuccesses ==
  {c \in Counted : ~ReadThrows(call[c].result) /\ call[c].result.success # "false"}

TaskFailure(c) ==
  \/ Route(call[c].task.type) = "throw"
  \/ call[c].proc = SpawnFailed
  \/ call[c].proc.code > 0
  \/ call[c].proc.code = 0 /\ ~call[c].proc.stdout.json

Undeclared(c) == call[c].pc # "idle" /\ call[c].task.type \notin DeclaredTypes

\* C7 as stated: a task of an undeclared type always returns
\* {success: false, error: "UnknownTaskType"} and never throws
C7_Original ==
  \A c \in Calls :
    Undeclared(c)
      => Completed(c) /\ call[c].response = FailureResponse(<<"UnknownTaskType">>)

\* C7, amended: on an initialized bridge, submitting a task of an undeclared
\* type returns {success: false, error: "Unknown task type: <type>"} in the
\* same turn and does not throw
C7_UnknownTypeFails ==
  [][\A c \in Calls :
       (isInitialized /\ call[c].pc = "idle" /\ Undeclared(c)')
         => (Completed(c) /\
             call[c].response = FailureResponse(UnknownTypeError(call[c].task.type)))'
    ]_vars

C7_Witness ==
  \E c \in Calls :
    /\ Undeclared(c) /\ Completed(c)
    /\ call[c].response.error = <<"Unknown task type: ", "Research">>

\* the submissions whose process printed a JSON object naming model m
Printed(m) ==
  {c \in Calls : /\ call[c].proc.code = 0 /\ call[c].proc.stdout.json
                 /\ call[c].proc.stdout.value.model_used = m}

C9_NonzeroExitReportsStderr ==
  \A c \in Calls :
    call[c].proc.code > 0
      => /\ Completed(c)
         /\ ~call[c].response.success
         /\ Contains(call[c].response.error, call[c].proc.stderr)

C9_Witness ==
  \E c \in Calls :
    /\ Completed(c) /\ call[c].proc.code = 2 /\ call[c].proc.stderr = "boom"
    /\ call[c].response.error = <<"Python process failed: ", "boom">>

C11_EntryPerTerminalOperation ==
  /\ forensicLogging =>
       \A c \in Calls : Completed(c) => call[c].opId \in DOMAIN forensicFiles
  /\ ~forensicLogging => forensicFiles = EmptyMap

\* shutdown() has returned: it is the only operation that detaches the listeners
ShutDown == ~listeners

\* C12: once shutdown() has returned, no engine process started by the bridge
\* is running, whatever the point of initialization at which it was called
C12_NoEngineAfterShutdown ==
  ShutDown => pythonProcess \notin {"spawned", "running"}

\* C13: the bridge is marked initialized only once the engine process has been
\* observed alive: never while the engine has only been spawned with nothing
\* heard from it, or has failed to start
C13_ReadyOnlyAfterEngineAlive ==
  isInitialized => pythonProcess \notin {"null", "spawned", "failed"}

\* C14: while initialization has not completed successfully (in progress or
\* failed) every submission is refused by a throw: the step adds no tracker
\* entry, spawns no process and changes no metric; a failed initialization
\* stays failed and never marks the bridge initialized
C14_RefusedUntilInitialized ==
  [][/\ initPc = "failed" => (initPc' = "failed" /\ ~isInitialized')
     /\ \A c \in Calls :
          (initPc # "done" /\ call[c].pc = "idle" /\ call'[c].pc # "idle") =>
            /\ call'[c].pc = "thrown"
            /\ call'[c].response.error = NotInitializedError
            /\ ~call'[c].spawned
            /\ call'[c].opId = NoOpId
            /\ UNCHANGED <<activeOperations, cognitiveMetrics>>]_vars

\* a submission was refused after initialization had failed, the host living on
C14_Witness ==
  /\ hostAlive /\ initPc = "failed"
  /\ \E c \in Calls : call[c].pc = "thrown"

\* the calls that were given an operation id
Entered == {c \in Calls : call[c].opId # NoOpId}

\* C15: no two operations created during the process lifetime have the same
\* operation id
C15_OperationIdsUnique ==
  \A c \in Entered, d \in Entered : c # d => call[c].opId # call[d].opId

\* C16: the tracker's entries and the calls in flight correspond one to one:
\* each call in flight has exactly one entry, under its own id and with status
\* processing, and every entry belongs to a call in flight
C16_TrackerMatchesInFlight ==
  /\ \A c \in Calls :
       InFlight(c) =>
         /\ EntriesOf(c) = {call[c].opId}
         /\ activeOperations[call[c].opId].status = "processing"
  /\ \A id \in DOMAIN activeOperations : InFlight(activeOperations[id].task)

\* the sum of the measured durations of a set of calls
RECURSIVE SumDurations(_)
SumDurations(S) ==
  IF S = {} THEN 0
  ELSE LET c == CHOOSE x \in S : TRUE
       IN  call[c].duration + SumDurations(S \ {c})

C18_SnapshotIsACopy ==
  [][/\ (\E field \in SnapshotFields, m \in ModelNames :
           CallerWritesSnapshot(field, m)) => UNCHANGED cognitiveMetrics
     /\ getCognitiveMetrics =>
          UNCHANGED <<activeOperations, cognitiveMetrics, sessionManager,
                      lionagiSessions, forensicFiles, isInitialized>>]_vars

\* C19: the session store changes only in a step in which a call made through
\* the tool handler completes with persistence requested and a session id in
\* its response, and then only by the entry under that session id; a response
\* without a session id (every failed orchestration) or a request without
\* persistence leaves the store as it was
C19_SessionOnlyWhenRequested ==
  [][lionagiSessions' # lionagiSessions =>
       \E c \in Calls :
         /\ ~Completed(c) /\ call'[c].pc = "returned"
         /\ call'[c].via = "tool" /\ call'[c].persist
         /\ call'[c].response.success
         /\ call'[c].response.session_id \in SessionIds
         /\ DOMAIN lionagiSessions' =
              DOMAIN lionagiSessions \cup {call'[c].response.session_id}
         /\ \A id \in DOMAIN lionagiSessions :
              id # call'[c].response.session_id =>
                lionagiSessions'[id] = lionagiSessions[id]]_vars

\* a tool call completed with a session id in its response but without
\* persistence requested, and the store is empty
C19_Witness ==
  \E c \in Calls :
    /\ Completed(c) /\ call[c].via = "tool" /\ ~call[c].persist
    /\ call[c].response.session_id \in SessionIds
    /\ lionagiSessions = EmptyMap

ProcessFails(c) ==
  /\ call[c].pc = "executing"
  /\ call'[c].proc # call[c].proc
  /\ call'[c].proc.code # 0

Workflows ==
  {"executeLegalReasoningWorkflow", "executeResearchWorkflow",
   "executeAnalysisWorkflow", "executeCodeGenerationWorkflow",
   "executeCrossPlatformSyncWorkflow"}

\* C22: each of the five declared task types is routed to a workflow: a
\* submission of a declared type that the initialized bridge accepted has
\* entered its workflow (its process was spawned, or the spawn statement
\* threw) and never carries the unknown-type failure
C22_DeclaredTypesRouted ==
  \A c \in Calls :
    call[c].pc \notin {"idle", "thrown"} /\ call[c].task.type \in DeclaredTypes
      => /\ Route(call[c].task.type) \in Workflows
         /\ call[c].response.error # UnknownTypeError(call[c].task.type)
         /\ call[c].spawned \/ call[c].response.error = SpawnThrowError

\* a task of the last declared type has run its workflow to a successful return
C22_Witness ==
  \E c \in Calls :
    /\ call[c].task.type = "cross_platform_sync"
    /\ call[c].spawned /\ Completed(c) /\ call[c].response.success

\* C23: the tracker entry of an operation is removed only after the operation
\* has been handed to the metrics update and, with forensic logging enabled, to
\* the forensic log, on the failure path as on the success path: in the step
\* that completes an operation, it has been counted and its entry written
C23_RemovedAfterHandOver ==
  [][\A c \in Calls :
       (InFlight(c) \/ call[c].pc = "idle") /\ call'[c].pc = "returned" =>
         /\ EntriesOf(c)' = {}
         /\ call'[c].counted
         /\ forensicLogging => call'[c].write = "written"]_vars

\* the submissions that completed successfully with model m
SucceededWith(m) ==
  {c \in Calls : /\ Completed(c) /\ call[c].response.success
                 /\ call[c].response.model_used = m}

C27_ToolSuccessMeansSuccess ==
  \A c \in Calls : call[c].tool = "success" => call[c].response.success

\* C28: after shutdown() the bridge accepts no further work: a submission made
\* after shutdown creates no tracker entry and spawns no process
C28_NoWorkAfterShutdown ==
  [][\A c \in Calls :
       (ShutDown /\ call[c].pc = "idle" /\ call'[c].pc # "idle") =>
         /\ ~call'[c].spawned
         /\ call'[c].opId = NoOpId
         /\ UNCHANGED activeOperations]_vars

C30_SuccessRateInUnitInterval ==
  LET rate == cognitiveMetrics.successRate
  IN  rate[2] > 0 /\ 0 <= rate[1] /\ rate[1] <= rate[2]

\* two operations were counted, the first with a payload that says success
\* false and the second a success: the rate is 1/2
C30_Witness ==
  /\ cognitiveMetrics.totalOperations = 2
  /\ cognitiveMetrics.successRate = <<1, 2>>
  /\ Cardinality(CountedSuccesses) = 1

====
